---- MODULE Spec2Model ----
(***************************************************************************)
(* Model of src/app/api/assistant/route.ts: the POST handler of the        *)
(* assistant route and the createApiGateway executor it dispatches to.     *)
(* One request is followed from intake to its response.  Every `await` of  *)
(* an outbound call is a step boundary: an action is the code that runs    *)
(* from the resumption of one await to the issue of the next call (or to   *)
(* the response).  The two remote services are the environment: each call  *)
(* either returns a value or throws.                                       *)
(***************************************************************************)
EXTENDS Integers, Sequences, FiniteSets, TLC

VARIABLES
    pc,            \* position of the handler
    body,          \* the inbound request body
    messages,      \* const messages (route.ts:147), mutated by push at 198-207
    completion,    \* const completion (route.ts:164)
    functionCall,  \* const functionCall (route.ts:180)
    args,          \* const args (route.ts:184)
    createApiRes,  \* createApiRes.data.name (route.ts:46)
    configRes,     \* configRes.data.name (route.ts:57)
    result,        \* let result (route.ts:186)
    calls,         \* every outbound call issued so far, in order, with its outcome
    invocations,   \* the arguments of every createApiGateway(args) call (route.ts:188)
    response       \* the NextResponse returned

vars == <<pc, body, messages, completion, functionCall, args, createApiRes,
          configRes, result, calls, invocations, response>>

(***************************************************************************)
(* Bounds and input domains                                                *)
(***************************************************************************)
MaxToolCalls == 2

Undefined == "<undefined>"
Null == "<null>"

\* String(x) inside a template literal
Str(x) == IF x = Undefined THEN "undefined" ELSE IF x = Null THEN "null" ELSE x

UserMessages == {"hi, how are you"}

\* what request.json() can be given: text that is no JSON, the JSON null,
\* an object without userMessage, an object with it
Bodies ==
    {[kind |-> "invalid", userMessage |-> Undefined],
     [kind |-> "null", userMessage |-> Undefined],
     [kind |-> "object", userMessage |-> Undefined]}
    \cup {[kind |-> "object", userMessage |-> u] : u \in UserMessages}

\* thrown values: Error objects (message, String(error)) and a bare thrown string
Error(m) == [message |-> m, str |-> "Error: " \o m]
Thrown(s) == [message |-> Undefined, str |-> s]
NoError == [message |-> "", str |-> ""]
ServiceErrors == {Error("quota exceeded"), Error("permission denied"), Thrown("socket hang up")}

\* names the resource-management service returns in res.data.name
Names == {"name-a", "name-b"}

Contents == {Null, "Hello!", "Your gateway request was processed."}

RawValid == "{\"project_id\":\"acme\",\"gateway_id\":\"orders-gateway\",\"region\":\"us-central1\",\"openapi_spec_url\":\"gs://bucket/spec.yaml\"}"
RawMissing == "{\"project_id\":\"acme\",\"gateway_id\":\"orders-gateway\"}"
RawNull == "null"
RawMalformed == "{\"project_id\": "
RawArgs == {RawValid, RawMissing, RawNull, RawMalformed}

ToolNames == {"create_api_gateway", "delete_api_gateway"}
ToolTypes == {"function", "custom"}
CallIds == <<"call_1", "call_2", "call_3", "call_4">>

ToolCallShapes ==
    [type : ToolTypes, function : [name : ToolNames, arguments : RawArgs]]

ToolCallAt(i, s) == [id |-> CallIds[i], type |-> s.type, function |-> s.function]

ToolCallLists ==
    UNION {{[i \in 1..n |-> ToolCallAt(i, f[i])] : f \in [1..n -> ToolCallShapes]}
           : n \in 0..MaxToolCalls}

\* completion.choices[0].message of a completion that returned
Completions ==
    {[content |-> c, has_tool_calls |-> FALSE, tool_calls |-> <<>>] : c \in Contents}
    \cup {[content |-> c, has_tool_calls |-> TRUE, tool_calls |-> t]
          : c \in Contents, t \in ToolCallLists}

NoCompletion == [content |-> Null, has_tool_calls |-> FALSE, tool_calls |-> <<>>]
NoCall == [id |-> "", type |-> "", function |-> [name |-> "", arguments |-> ""]]
NoArgs == [isObject |-> FALSE, project_id |-> Undefined, gateway_id |-> Undefined,
           region |-> Undefined, openapi_spec_url |-> Undefined]
NoResponse == [status |-> 0, body |-> [pending |-> TRUE]]

(***************************************************************************)
(* Pure helpers                                                            *)
(***************************************************************************)

\* JSON.parse(rawArgs), route.ts:184
JSONparse(raw) ==
    CASE raw = RawValid ->
           [threw |-> FALSE,
            value |-> [isObject |-> TRUE, project_id |-> "acme",
                       gateway_id |-> "orders-gateway", region |-> "us-central1",
                       openapi_spec_url |-> "gs://bucket/spec.yaml"]]
      [] raw = RawMissing ->
           [threw |-> FALSE,
            value |-> [isObject |-> TRUE, project_id |-> "acme",
                       gateway_id |-> "orders-gateway", region |-> Undefined,
                       openapi_spec_url |-> Undefined]]
      [] raw = RawNull ->
           [threw |-> FALSE, value |-> NoArgs]
      [] OTHER ->
           [threw |-> TRUE, value |-> NoArgs]

\* JSON.stringify of an object literal given as <<key, value>> pairs:
\* the pairs in order, properties whose value is undefined dropped
JSONstringify(pairs) == SelectSeq(pairs, LAMBDA p : p[2] # Undefined)

\* error?.message || String(error), route.ts:89 and route.ts:231
ErrMessage(error) ==
    IF error.message \notin {Undefined, Null, ""} THEN error.message ELSE error.str

SuccessResultAsError(api, api_config, gateway) ==
    JSONstringify(<< <<"status", "error">>, <<"api", api>>,
                     <<"api_config", api_config>>, <<"gateway", gateway>> >>)
\* route.ts:80-85
SuccessResult(api, api_config, gateway) ==
    JSONstringify(<< <<"status", "success">>, <<"api", api>>,
                     <<"api_config", api_config>>, <<"gateway", gateway>> >>)

\* route.ts:87-90
ErrorResult(error) ==
    JSONstringify(<< <<"status", "error">>, <<"message", ErrMessage(error)>> >>)

\* route.ts:191-194
UnknownFunctionResult(name) ==
    JSONstringify(<< <<"status", "error">>, <<"message", "Unknown function: " \o name>> >>)

\* route.ts:172
NoToolCalls(c) == ~c.has_tool_calls \/ Len(c.tool_calls) = 0

TextOfEmpty(content) == ""
\* completion.choices[0].message.content ?? "", route.ts:174 and route.ts:217
TextOf(content) == IF content \in {Null, Undefined} THEN "" ELSE content

FirstToolCallLast(toolCalls) == toolCalls[Len(toolCalls)]
\* toolCalls[0], route.ts:180
FirstToolCall(toolCalls) == toolCalls[1]

\* route.ts:147-157
InitialMessages(userMessage) ==
    << [role |-> "system",
        content |-> "You are assisting with Google API Gateway migrations. Use create_api_gateway if the user wants to create or migrate an API."],
       [role |-> "user", content |-> userMessage] >>

PushCallAndResultSwapped(msgs, call, res) ==
    msgs \o << [role |-> "tool", tool_call_id |-> call.id, content |-> res],
               [role |-> "assistant", content |-> "", tool_calls |-> <<call>>] >>
\* route.ts:198-207
PushCallAndResult(msgs, call, res) ==
    msgs \o << [role |-> "assistant", content |-> "", tool_calls |-> <<call>>],
               [role |-> "tool", tool_call_id |-> call.id, content |-> res] >>

(***************************************************************************)
(* Outbound calls                                                          *)
(***************************************************************************)
Call(op, request) ==
    [op |-> op, request |-> request, outcome |-> "pending", data |-> Undefined,
     error |-> NoError]

Returned(log, data) ==
    [log EXCEPT ![Len(log)].outcome = "ok", ![Len(log)].data = data]
Threw(log, e) ==
    [log EXCEPT ![Len(log)].outcome = "error", ![Len(log)].error = e]

\* openai.chat.completions.create({model, messages, tools}), route.ts:164 and 210
CompletionCall(msgs) ==
    Call("chat.completions.create",
         [model |-> "gpt-4-0613", messages |-> msgs, tools |-> <<"create_api_gateway">>])

\* route.ts:45-53
ApisCreateCall(a) ==
    Call("apis.create",
         [parent |-> "projects/" \o Str(a.project_id) \o "/locations/global",
          id |-> a.gateway_id,
          ref |-> Undefined])

\* route.ts:56-61
ConfigsCreateCall(a) ==
    Call("apis.configs.create",
         [parent |-> "projects/" \o Str(a.project_id) \o "/locations/global"
                       \o "/apis/" \o Str(a.gateway_id),
          id |-> Str(a.gateway_id) \o "-config",
          ref |-> a.openapi_spec_url])

\* route.ts:64-74
GatewaysCreateCall(a, configName) ==
    Call("gateways.create",
         [parent |-> "projects/" \o Str(a.project_id) \o "/locations/" \o Str(a.region),
          id |-> a.gateway_id,
          ref |-> configName])

(***************************************************************************)
(* The handler                                                             *)
(***************************************************************************)
Init ==
    /\ pc = "start"
    /\ body \in Bodies
    /\ messages = <<>>
    /\ completion = NoCompletion
    /\ functionCall = NoCall
    /\ args = NoArgs
    /\ createApiRes = Undefined
    /\ configRes = Undefined
    /\ result = <<>>
    /\ calls = <<>>
    /\ invocations = <<>>
    /\ response = NoResponse

\* return NextResponse.json({assistantResponse}), route.ts:175, 218, 222
Respond(text) ==
    /\ response' = [status |-> 200, body |-> [assistantResponse |-> text]]
    /\ pc' = "done"

\* the catch clause of POST, route.ts:226-235
Catch(error) ==
    /\ response' = [status |-> 500,
                    body |-> [error |-> TRUE, message |-> ErrMessage(error)]]
    /\ pc' = "done"

\* route.ts:197-214: push the call and its result, issue the second completion
Reconcile(log, call, res) ==
    /\ result' = res
    /\ messages' = PushCallAndResult(messages, call, res)
    /\ calls' = Append(log, CompletionCall(messages'))
    /\ pc' = "completion2"

\* route.ts:139-168: parse the body, build the messages, issue the first completion
Intake ==
    /\ pc = "start"
    /\ IF body.kind = "invalid"
       THEN /\ Catch(Error("Unexpected token in JSON"))
            /\ UNCHANGED <<messages, calls>>
       ELSE IF body.kind = "null"
       THEN /\ Catch(Error("Cannot destructure property 'userMessage' of null"))
            /\ UNCHANGED <<messages, calls>>
       ELSE /\ messages' = InitialMessages(body.userMessage)
            /\ calls' = Append(calls, CompletionCall(messages'))
            /\ pc' = "completion1"
            /\ UNCHANGED response
    /\ UNCHANGED <<body, completion, functionCall, args, createApiRes, configRes,
                   result, invocations>>

Completion1Retries ==
    /\ pc = "completion1"
    /\ \E e \in ServiceErrors :
          /\ calls' = Append(Threw(calls, e), CompletionCall(messages))
    /\ UNCHANGED <<pc, response, body, messages, completion, functionCall, args,
                   createApiRes, configRes, result, invocations>>
\* route.ts:164 throws: the catch clause answers
Completion1Throws ==
    /\ pc = "completion1"
    /\ \E e \in ServiceErrors :
          /\ calls' = Threw(calls, e)
          /\ Catch(e)
    /\ UNCHANGED <<body, messages, completion, functionCall, args, createApiRes,
                   configRes, result, invocations>>

\* route.ts:164-207: the first completion returns
Completion1Returns ==
    /\ pc = "completion1"
    /\ \E c \in Completions :
          LET log == Returned(calls, c.content) IN
          /\ completion' = c
          /\ IF NoToolCalls(c)
             THEN \* route.ts:172-176
                  /\ Respond(TextOf(c.content))
                  /\ calls' = log
                  /\ UNCHANGED <<functionCall, args, result, messages, invocations>>
             ELSE LET fc == FirstToolCall(c.tool_calls)
                      parsed == JSONparse(fc.function.arguments)
                  IN
                  /\ functionCall' = fc
                  /\ IF fc.type # "function"
                     THEN \* route.ts:221-225
                          /\ Respond("Unexpected tool call structure. Please try again or contact support.")
                          /\ calls' = log
                          /\ UNCHANGED <<args, result, messages, invocations>>
                     ELSE IF parsed.threw
                     THEN \* route.ts:184 throws SyntaxError
                          /\ Catch(Error("Unexpected end of JSON input"))
                          /\ calls' = log
                          /\ UNCHANGED <<args, result, messages, invocations>>
                     ELSE IF fc.function.name = "create_api_gateway"
                     THEN \* route.ts:188, then route.ts:19-53
                          /\ args' = parsed.value
                          /\ invocations' = Append(invocations, parsed.value)
                          /\ IF ~parsed.value.isObject
                             THEN \* destructuring the parameter of route.ts:19 throws
                                  /\ Catch(Error("Cannot destructure property 'project_id' of null"))
                                  /\ calls' = log
                             ELSE /\ calls' = Append(log, ApisCreateCall(parsed.value))
                                  /\ pc' = "apis.create"
                                  /\ UNCHANGED response
                          /\ UNCHANGED <<result, messages>>
                     ELSE \* route.ts:189-195
                          /\ args' = parsed.value
                          /\ Reconcile(log, fc, UnknownFunctionResult(fc.function.name))
                          /\ UNCHANGED <<response, invocations>>
    /\ UNCHANGED <<body, createApiRes, configRes>>

ExecutorCatchRethrows(e) ==
    /\ calls' = Threw(calls, e)
    /\ Catch(e)
    /\ UNCHANGED <<result, messages>>
\* a create call of createApiGateway throws: route.ts:86-91, then route.ts:197-214
ExecutorCatch(e) ==
    /\ Reconcile(Threw(calls, e), functionCall, ErrorResult(e))
    /\ UNCHANGED response

ApisCreateThrows ==
    /\ pc = "apis.create"
    /\ \E e \in ServiceErrors : ExecutorCatch(e)
    /\ UNCHANGED <<body, completion, functionCall, args, createApiRes, configRes,
                   invocations>>

\* route.ts:46-61
ApisCreateReturns ==
    /\ pc = "apis.create"
    /\ \E n \in Names :
          /\ createApiRes' = n
          /\ calls' = Append(Returned(calls, n), ConfigsCreateCall(args))
    /\ pc' = "apis.configs.create"
    /\ UNCHANGED <<body, messages, completion, functionCall, args, configRes, result,
                   invocations, response>>

ConfigsCreateThrowsGoesOn ==
    /\ pc = "apis.configs.create"
    /\ \E e \in ServiceErrors :
          calls' = Append(Threw(calls, e), GatewaysCreateCall(args, Undefined))
    /\ pc' = "gateways.create"
    /\ UNCHANGED <<body, messages, completion, functionCall, args, createApiRes,
                   configRes, result, invocations, response>>
ConfigsCreateThrows ==
    /\ pc = "apis.configs.create"
    /\ \E e \in ServiceErrors : ExecutorCatch(e)
    /\ UNCHANGED <<body, completion, functionCall, args, createApiRes, configRes,
                   invocations>>

\* route.ts:57-74
ConfigsCreateReturns ==
    /\ pc = "apis.configs.create"
    /\ \E n \in Names :
          /\ configRes' = n
          /\ calls' = Append(Returned(calls, n), GatewaysCreateCall(args, n))
    /\ pc' = "gateways.create"
    /\ UNCHANGED <<body, messages, completion, functionCall, args, createApiRes, result,
                   invocations, response>>

GatewaysCreateThrows ==
    /\ pc = "gateways.create"
    /\ \E e \in ServiceErrors : ExecutorCatch(e)
    /\ UNCHANGED <<body, completion, functionCall, args, createApiRes, configRes,
                   invocations>>

\* route.ts:70-85, then route.ts:197-214
GatewaysCreateReturns ==
    /\ pc = "gateways.create"
    /\ \E n \in Names :
          Reconcile(Returned(calls, n), functionCall,
                    SuccessResult(createApiRes, configRes, n))
    /\ UNCHANGED <<body, completion, functionCall, args, createApiRes, configRes,
                   invocations, response>>

\* route.ts:210 throws: the catch clause answers
Completion2Throws ==
    /\ pc = "completion2"
    /\ \E e \in ServiceErrors :
          /\ calls' = Threw(calls, e)
          /\ Catch(e)
    /\ UNCHANGED <<body, messages, completion, functionCall, args, createApiRes,
                   configRes, result, invocations>>

\* route.ts:210-218: only the content of the second completion is read
Completion2Returns ==
    /\ pc = "completion2"
    /\ \E c \in Contents :
          /\ calls' = Returned(calls, c)
          /\ Respond(TextOf(c))
    /\ UNCHANGED <<body, messages, completion, functionCall, args, createApiRes,
                   configRes, result, invocations>>

Next ==
    \/ Intake
    \/ Completion1Throws
    \/ Completion1Returns
    \/ ApisCreateThrows
    \/ ApisCreateReturns
    \/ ConfigsCreateThrows
    \/ ConfigsCreateReturns
    \/ GatewaysCreateThrows
    \/ GatewaysCreateReturns
    \/ Completion2Throws
    \/ Completion2Returns

Spec == Init /\ [][Next]_vars

(***************************************************************************)
(* Observations used by the properties                                     *)
(***************************************************************************)
\* a property read back from a serialized result, Undefined when absent
RECURSIVE JSONget(_, _)
JSONget(text, key) ==
    IF text = <<>> THEN Undefined
    ELSE IF Head(text)[1] = key THEN Head(text)[2]
    ELSE JSONget(Tail(text), key)

CreateOps == <<"apis.create", "apis.configs.create", "gateways.create">>

CompletionIdx == {i \in 1..Len(calls) : calls[i].op = "chat.completions.create"}
CreateIdx == {i \in 1..Len(calls) : calls[i].op # "chat.completions.create"}
SecondIdx == CompletionIdx \ {1}

\* the first completion has returned
FirstReturned == Len(calls) >= 1 /\ calls[1].outcome = "ok"

\* the text of a completion whose content is c: the content, "" when there is none
Text(c) == IF c = Null THEN "" ELSE c

\* the message carried by a thrown value: an Error's message, else the value as a string
Carried(e) == IF e.message = Undefined THEN e.str ELSE e.message

SuccessBody(t) == [assistantResponse |-> t]
ErrorBody(m) == [error |-> TRUE, message |-> m]

SingleValidInvocation ==
    /\ FirstReturned
    /\ completion.has_tool_calls
    /\ Len(completion.tool_calls) = 1
    /\ completion.tool_calls[1].type = "function"
    /\ completion.tool_calls[1].function.name = "create_api_gateway"
    /\ completion.tool_calls[1].function.arguments = RawValid

FirstIsFunction ==
    /\ FirstReturned
    /\ completion.has_tool_calls
    /\ Len(completion.tool_calls) >= 1
    /\ completion.tool_calls[1].type = "function"

ExecutorReturned == pc \in {"completion2", "done"} /\ SecondIdx # {}

(***************************************************************************)
(* C1: when the first completion carries no tool invocation (tool_calls    *)
(* absent or empty), the request ends at once with the success body whose  *)
(* assistantResponse is that completion's text; createApiGateway is never  *)
(* invoked and no second completion call is made.                          *)
(***************************************************************************)
C1_PlainTextVerbatim ==
    (FirstReturned /\ (~completion.has_tool_calls \/ completion.tool_calls = <<>>))
    => /\ pc = "done"
       /\ response.status = 200
       /\ response.body = SuccessBody(Text(completion.content))
       /\ invocations = <<>>
       /\ Len(calls) = 1

C1_Witness ==
    /\ pc = "done"
    /\ completion.has_tool_calls
    /\ completion.tool_calls = <<>>
    /\ completion.content = "Hello!"
    /\ response.body = SuccessBody("Hello!")

(***************************************************************************)
(* C2: for a single function-type invocation of create_api_gateway with    *)
(* schema-satisfying arguments, createApiGateway is invoked at most once,  *)
(* and a returned assistantResponse is the text of a second completion     *)
(* call whose messages are exactly: system, user, the assistant message    *)
(* carrying the invocation, the tool message carrying the executor's       *)
(* result under the invocation's id.                                       *)
(***************************************************************************)
C2_SingleInvocationRoundTrip ==
    SingleValidInvocation
    => /\ Len(invocations) <= 1
       /\ (pc = "done" /\ response.status = 200)
          => /\ Cardinality(CompletionIdx) = 2
             /\ Len(invocations) = 1
             /\ LET second == calls[Len(calls)] IN
                /\ second.op = "chat.completions.create"
                /\ second.outcome = "ok"
                /\ response.body = SuccessBody(Text(second.data))
                /\ second.request.messages =
                     << [role |-> "system",
                         content |-> calls[1].request.messages[1].content],
                        [role |-> "user", content |-> body.userMessage],
                        [role |-> "assistant", content |-> "",
                         tool_calls |-> <<completion.tool_calls[1]>>],
                        [role |-> "tool",
                         tool_call_id |-> completion.tool_calls[1].id,
                         content |-> result] >>
                /\ calls[1].request.messages = SubSeq(second.request.messages, 1, 2)

C2_Witness ==
    /\ SingleValidInvocation
    /\ pc = "done"
    /\ response.status = 200
    /\ Len(calls) = 5
    /\ calls[4].outcome = "ok"

(***************************************************************************)
(* C3: for a function-type invocation whose name is not in the catalog,    *)
(* whatever its argument payload, the request does not throw: no create    *)
(* call is made, the result is an error naming the unknown function, the   *)
(* second completion call is made and, when it returns, its text is the    *)
(* success body.                                                           *)
(***************************************************************************)
C3_UnknownToolNeverThrows ==
    (pc = "done" /\ FirstIsFunction
       /\ completion.tool_calls[1].function.name # "create_api_gateway")
    => /\ CreateIdx = {}
       /\ invocations = <<>>
       /\ SecondIdx # {}
       /\ JSONget(result, "status") = "error"
       /\ JSONget(result, "message")
            = "Unknown function: " \o completion.tool_calls[1].function.name
       /\ calls[Len(calls)].outcome = "ok"
            => response = [status |-> 200,
                           body |-> SuccessBody(Text(calls[Len(calls)].data))]

(***************************************************************************)
(* C4: the create calls are issued in the order API, API configuration,    *)
(* Gateway; a create that fails is the last call the executor makes, and   *)
(* the result is then an error carrying that failure's message; nothing    *)
(* but the three creates is ever sent to the resource service (no delete). *)
(***************************************************************************)
C4_ChainAbortsOnFailure ==
    LET creates == SelectSeq(calls, LAMBDA c : c.op # "chat.completions.create") IN
    /\ Len(creates) <= Len(CreateOps)
    /\ \A k \in 1..Len(creates) :
          /\ creates[k].op = CreateOps[k]
          /\ (k < Len(creates)) => creates[k].outcome = "ok"
    /\ \A k \in 1..Len(creates) :
          creates[k].outcome = "error"
          => /\ k = Len(creates)
             /\ ExecutorReturned
             /\ result = << <<"status", "error">>,
                            <<"message", Carried(creates[k].error)>> >>

C4_Witness ==
    /\ pc = "done"
    /\ Len(calls) = 4
    /\ calls[2].op = "apis.create"
    /\ calls[2].outcome = "ok"
    /\ calls[3].op = "apis.configs.create"
    /\ calls[3].outcome = "error"
    /\ calls[3].error.message = "quota exceeded"

(***************************************************************************)
(* C5: a failure of any create step is recovered into data: the error      *)
(* result is appended as the tool message, the second completion call is   *)
(* made with it, and the request ends with the success body whenever that  *)
(* second completion returns; a 500 then comes only from the second        *)
(* completion's own failure.                                               *)
(***************************************************************************)
C5_ExecutorErrorsRecovered ==
    \A i \in CreateIdx :
       calls[i].outcome = "error"
       => /\ SecondIdx = {i + 1}
          /\ Len(calls) = i + 1
          /\ Len(messages) = 4
          /\ messages[4].role = "tool"
          /\ messages[4].content = result
          /\ JSONget(result, "status") = "error"
          /\ JSONget(result, "message") = Carried(calls[i].error)
          /\ calls[i + 1].request.messages = messages
          /\ pc \in {"completion2", "done"}
          /\ pc = "done"
             => \/ /\ calls[i + 1].outcome = "ok"
                   /\ response = [status |-> 200,
                                  body |-> SuccessBody(Text(calls[i + 1].data))]
                \/ /\ calls[i + 1].outcome = "error"
                   /\ response = [status |-> 500,
                                  body |-> ErrorBody(Carried(calls[i + 1].error))]

C5_Witness ==
    /\ pc = "done"
    /\ Len(calls) = 5
    /\ calls[4].op = "gateways.create"
    /\ calls[4].outcome = "error"
    /\ calls[5].outcome = "ok"
    /\ response.status = 200

(***************************************************************************)
(* C6: for a function-type invocation whose raw argument payload is        *)
(* malformed (not JSON, or parsed without a required field), the outcome   *)
(* is an error result fed to the second completion call; the request does  *)
(* not end in the 500 response unless a completion call itself failed.     *)
(***************************************************************************)
MalformedPayload(raw) ==
    \/ JSONparse(raw).threw
    \/ /\ JSONparse(raw).value.isObject
       /\ \E f \in {"project_id", "gateway_id", "region", "openapi_spec_url"} :
             JSONparse(raw).value[f] = Undefined

C6_MalformedArgsBecomeErrorResult ==
    (pc = "done" /\ FirstIsFunction
       /\ MalformedPayload(completion.tool_calls[1].function.arguments))
    => /\ SecondIdx # {}
       /\ JSONget(calls[Len(calls)].request.messages[4].content, "status") = "error"
       /\ response.status = 500 => calls[Len(calls)].outcome = "error"

(***************************************************************************)
(* C7: a completion call that fails is not retried and is the last         *)
(* outbound call of the request; the request ends with status 500 and the  *)
(* body {error: true, message} carrying the failure's message, without an  *)
(* assistantResponse.                                                      *)
(***************************************************************************)
C7_CompletionFailureIsFatal ==
    \A i \in CompletionIdx :
       calls[i].outcome = "error"
       => /\ i = Len(calls)
          /\ Cardinality(CompletionIdx) <= 2
          /\ pc = "done"
          /\ response.status = 500
          /\ response.body = ErrorBody(Carried(calls[i].error))

C7_Witness ==
    /\ pc = "done"
    /\ Len(calls) = 5
    /\ calls[4].outcome = "ok"
    /\ calls[5].op = "chat.completions.create"
    /\ calls[5].outcome = "error"
    /\ response.status = 500

(***************************************************************************)
(* C8: the tool message given to the second completion has status          *)
(* "success" exactly when all three creates were issued and accepted, and  *)
(* then carries the three names returned, in the fields api, api_config,   *)
(* gateway; otherwise its status is "error"; it is the executor's result,  *)
(* unaltered.                                                              *)
(***************************************************************************)
AllCreatesAccepted ==
    /\ Cardinality(CreateIdx) = 3
    /\ \A i \in CreateIdx : calls[i].outcome = "ok"

C8_StatusFaithful ==
    \A i \in SecondIdx :
       LET content == calls[i].request.messages[4].content IN
       /\ calls[i].request.messages[4].role = "tool"
       /\ content = result
       /\ JSONget(content, "status") \in {"success", "error"}
       /\ JSONget(content, "status") = "success" <=> AllCreatesAccepted
       /\ AllCreatesAccepted
          => /\ JSONget(content, "api") = calls[2].data
             /\ JSONget(content, "api_config") = calls[3].data
             /\ JSONget(content, "gateway") = calls[4].data

C8_Witness ==
    /\ pc = "done"
    /\ AllCreatesAccepted
    /\ calls[2].data # calls[3].data
    /\ JSONget(calls[5].request.messages[4].content, "status") = "success"
    /\ response.status = 200

(***************************************************************************)
(* C9: a request whose body lacks userMessage is answered with a 4xx       *)
(* status and makes no outbound call.                                      *)
(***************************************************************************)
C9_MissingUserMessageRejected ==
    (body.kind = "object" /\ body.userMessage = Undefined /\ pc # "start")
    => /\ calls = <<>>
       /\ pc = "done"
       /\ response.status \in 400..499

(***************************************************************************)
(* C10: when the first completion returns two or more invocations, only    *)
(* the first is acted on: createApiGateway is invoked at most once, with   *)
(* the first invocation's arguments; the messages appended are one         *)
(* assistant message and one tool message, both for the first invocation;  *)
(* the later invocations appear in no message sent to a completion.        *)
(***************************************************************************)
C10_OnlyFirstInvocationHandled ==
    (FirstReturned /\ Len(completion.tool_calls) >= 2)
    => LET first == completion.tool_calls[1]
           laterIds == {completion.tool_calls[k].id : k \in 2..Len(completion.tool_calls)}
       IN
       /\ Len(invocations) <= 1
       /\ invocations # <<>>
          => /\ invocations[1] = JSONparse(first.function.arguments).value
             /\ first.function.name = "create_api_gateway"
       /\ Cardinality(CreateIdx) <= 3
       /\ Len(messages) \in {2, 4}
       /\ Len(messages) = 4
          => /\ messages[3] = [role |-> "assistant", content |-> "",
                               tool_calls |-> <<first>>]
             /\ messages[4].role = "tool"
             /\ messages[4].tool_call_id = first.id
       /\ \A i \in CompletionIdx :
             /\ Len(calls[i].request.messages) = IF i = 1 THEN 2 ELSE 4
             /\ i # 1 => /\ calls[i].request.messages = messages
                         /\ calls[i].request.messages[4].tool_call_id \notin laterIds
                         /\ \A t \in 1..Len(calls[i].request.messages[3].tool_calls) :
                               calls[i].request.messages[3].tool_calls[t].id \notin laterIds

C10_Witness ==
    /\ pc = "done"
    /\ Len(completion.tool_calls) = 2
    /\ completion.tool_calls[1].function.arguments = RawValid
    /\ completion.tool_calls[2].function.arguments = RawMissing
    /\ completion.tool_calls[2].function.name = "create_api_gateway"
    /\ AllCreatesAccepted
    /\ response.status = 200

====
